---- MODULE Spec2Model ----
(***************************************************************************)
(* The patch engine of the state engine (package patch): Init, Apply,      *)
(* applySublevelPatches and applyOne, run against a lockable State.        *)
(*                                                                         *)
(* The State type itself (Lock, Unlock, Get, Set, the dirty flag and the   *)
(* checkpoint) lives in internals/overlord/state, which is not among the   *)
(* sources; it is modelled from sections 4.1 and 4.2 of the specification. *)
(*                                                                         *)
(* A PatchFunc is opaque code.  The patch at index i of level l is known   *)
(* by its place <<l, i>>; when it runs it either writes its keys and       *)
(* returns nil, or returns an error after having written none or only the  *)
(* first of its keys.  Patch functions do not write the two marker keys.   *)
(*                                                                         *)
(* Spec is one run of the process: Init or Apply at startup, with the      *)
(* request handler as another holder of the lock.  CrashSpec adds the      *)
(* checkpoint and the death of the process, which starts again from the    *)
(* last checkpoint (sections 4.2 and 7 of the specification).              *)
(*                                                                         *)
(* RefreshSpec lets the software be replaced between two runs by another   *)
(* build of the same Level; ConcSpec has two goroutines in Apply at once.  *)
(*                                                                         *)
(* CmdSpec is apart from these: the fake command of package testutil, the  *)
(* log its script writes and FakeCmd.Calls, which reads the log back.      *)
(***************************************************************************)
EXTENDS Integers, Sequences, FiniteSets

\* Largest patch level of the model: levels are 0..MaxLevel.
MaxLevel == 2
\* Longest sublevel list of a registry entry: lengths are 0..MaxLen.
MaxLen == 2

Levels == 0..MaxLevel
Sublevels == 0..(MaxLen - 1)

\* The goroutines that may call into the package; Main is the startup path.
Procs == {"p1", "p2"}
Main == "p1"
\* Another lock holder: the v1SystemInfo request handler.
Observer == "api"
Free == "free"

VARIABLES
    Level,      \* var Level: the running patch level
    Sublevel,   \* var Sublevel: the running sublevel
    patches,    \* var patches: level -> number of sublevel patches listed
    data,       \* the State's key/value map
    dirty,      \* the State's dirty flag
    lock,       \* who holds the State's lock
    disk,       \* the last checkpoint written
    proc,       \* for each goroutine: where it is in Apply, and its locals
    seen,       \* what the observer read under the lock
    initRes,    \* how the last call of Init ended
    calm,       \* the last thing that happened was an Apply returning nil
    fresh,      \* the last thing that happened was Init stamping the state
    resume,     \* the pair an interrupted Apply had committed last
    logFile,    \* FakeCmd.logFile: the log the fake command's script writes
    made,       \* the invocations of the fake command since ForgetCalls
    calls       \* what the last FakeCmd.Calls returned

\* The state of a fake command of package testutil.
cmdVars == <<logFile, made, calls>>

\* The state of the patch engine and of the State it runs against.
patchVars == <<Level, Sublevel, patches, data, dirty, lock, disk, proc, seen,
               initRes, calm, fresh, resume>>

vars == <<patchVars, cmdVars>>

----------------------------------------------------------------------------
\* Stored values.  A value is absent, an integer, not an integer, or the
\* name of the patch that wrote it.

Absent == [kind |-> "absent", n |-> 0, m |-> 0]
Garbage == [kind |-> "garbage", n |-> 0, m |-> 0]
IntVal(i) == [kind |-> "int", n |-> i, m |-> 0]
PatchVal(l, s) == [kind |-> "patch", n |-> l, m |-> s]

Keys == {"patch-level", "patch-sublevel", "first", "last"}

\* State.Get into an int: ErrNoState when the key is absent, a decode error
\* when the stored value is no integer; out keeps its zero value on error.
Get(d, key) ==
    CASE d[key].kind = "absent" -> [err |-> "ErrNoState", val |-> 0]
      [] d[key].kind = "int" -> [err |-> "nil", val |-> d[key].n]
      [] OTHER -> [err |-> "ErrDecode", val |-> 0]

\* State.Set: stores the value (and marks the State dirty, see the actions).
Set(d, key, v) == [d EXCEPT ![key] = v]

NoPair == <<>>

\* The stored markers as Apply reads them.
StoredPair(d) == <<Get(d, "patch-level").val, Get(d, "patch-sublevel").val>>

PairLess(p, q) == p[1] < q[1] \/ (p[1] = q[1] /\ p[2] < q[2])

\* len(patches[level]): a level the map does not list has a nil list.
PatchLen(level) == IF level \in DOMAIN patches THEN patches[level] ELSE 0

\* All registries: a map from some of the levels to a list length.  The patch
\* at index 0 of a level is the one that takes the state to that level, so the
\* levels a registry lists start at 1 (level 0 is a state no patch has touched).
Registries == UNION {[D -> 0..MaxLen] : D \in SUBSET (1..MaxLevel)}

----------------------------------------------------------------------------
\* The decisions of Apply, applySublevelPatches and applyOne.

\* (a bug: a marker that is missing counts as a read error)
ReadFailedOnNoState(err) == err # "nil"

\* Apply: the markers could be read (a missing marker reads as 0).
ReadFailed(err) == err # "nil" /\ err # "ErrNoState"

\* (a bug: the comparison is off by one)
TooNewOffByOne(stateLevel) == stateLevel > Level + 1

\* Apply: the state is from newer software.
TooNew(stateLevel) == stateLevel > Level

\* Apply: nothing to do.
UpToDate(stateLevel, stateSublevel) ==
    stateLevel = Level /\ stateSublevel = Sublevel

\* (a bug: the comparison is the wrong way round)
SameLevelDowngradeReversed(stateLevel, stateSublevel) ==
    stateLevel = Level /\ stateSublevel < Sublevel

\* Apply: downgrade within the same level.
SameLevelDowngrade(stateLevel, stateSublevel) ==
    stateLevel = Level /\ stateSublevel > Sublevel

\* (a bug: the rest of the stored level's list is skipped)
HasMissingSublevelsNever(stateLevel, stateSublevel) == FALSE

\* Apply: the stored level has sublevel patches that were not applied yet.
HasMissingSublevels(stateLevel, stateSublevel) ==
    stateSublevel + 1 < PatchLen(stateLevel)

\* (a bug: the + 1 of the index is forgotten)
FirstMissingSublevelNoPlusOne(stateSublevel) == stateSublevel

\* Apply: the first of those.
FirstMissingSublevel(stateSublevel) == stateSublevel + 1

\* (a bug: the loop starts at the stored level)
FirstNewLevelSame(stateLevel) == stateLevel

\* Apply: the first level of the upgrade loop.
FirstNewLevel(stateLevel) == stateLevel + 1

\* (a bug: the loop stops one level short)
MoreLevelsButLast(level) == level < Level

\* Apply: the upgrade loop's condition.
MoreLevels(level) == level <= Level

\* (a bug: the nil check is missing)
NoMigrationPathUnchecked(level) == FALSE

\* Apply: the registry has no entry for the level.
NoMigrationPath(level) == level \notin DOMAIN patches

\* applySublevelPatches: the loop's condition.
MoreSublevels(level, sublevel) == sublevel < PatchLen(level)

\* (a bug: patch-level is not bumped)
BumpLevelDropped(d, newLevel) == d

\* applyOne: the marker bumps after a successful patch.
BumpLevel(d, newLevel) == Set(d, "patch-level", IntVal(newLevel))
BumpSublevel(d, newSublevel) == Set(d, "patch-sublevel", IntVal(newSublevel))

\* (a bug: the error is logged, and the loop goes on)
OnPatchErrorIgnored(p) == [p EXCEPT !.pc = "sub", !.sublevel = @ + 1]

\* applySublevelPatches and Apply: an error of applyOne is returned at once.
OnPatchError(p) == [p EXCEPT !.pc = "idle", !.result = "err"]

\* Apply: the downgrade rewrites the stored sublevel.
Downgraded(d) == Set(d, "patch-sublevel", IntVal(Sublevel))

\* (a bug: a new state is stamped at sublevel 0)
StampSublevelZero(d) == Set(d, "patch-sublevel", IntVal(0))

\* defer s.Unlock() of applyOne and of Init: whoever returns, with nil,
\* with an error or by panic, lets go of the lock.
\* (a bug: a return that leaves the lock held)
UnlockForgotten(t) == t
UnlockDeferred(t) == Free

\* applyOne: the Unlock is deferred, so the lock is still held when patch(s)
\* has returned nil and the markers are bumped.
\* (a bug: the lock is released when the patch returns)
ReleasedAfterPatch(t) == Free
HeldAfterPatch(t) == t

\* Init: the two stamps.
StampLevel(d) == Set(d, "patch-level", IntVal(Level))
StampSublevel(d) == Set(d, "patch-sublevel", IntVal(Sublevel))

\* A patch function's writes: its first key, then its last.
PatchWrites(d, l, s) == Set(Set(d, "first", PatchVal(l, s)), "last", PatchVal(l, s))
PatchWritesPartly(d, l, s) == Set(d, "first", PatchVal(l, s))

----------------------------------------------------------------------------
Idle ==
    [pc |-> "idle", stateLevel |-> 0, stateSublevel |-> 0, err |-> "nil",
     level |-> 0, sublevel |-> 0, upgrading |-> FALSE, result |-> "none",
     ran |-> <<>>, entry |-> [k \in Keys |-> Absent], entryDirty |-> FALSE,
     immediate |-> FALSE, afterInit |-> FALSE, lastOK |-> NoPair,
     failed |-> NoPair, gap |-> FALSE, resumed |-> NoPair,
     before |-> [k \in Keys |-> Absent], beforeDirty |-> FALSE,
     wrote |-> FALSE, downgradedTo |-> NoPair, afterDowngrade |-> NoPair]

NotSeen == [valid |-> FALSE, d |-> [k \in Keys |-> Absent]]

----------------------------------------------------------------------------
\* The fake command of package testutil: the script that logs each
\* invocation, and FakeCmd.Calls, which reads the log back.
\*
\* A string is a sequence of bytes.  NUL is the byte \0; an argument of a
\* command cannot hold it.  "LF" is the newline.

\* Longest argument, most arguments of an invocation, most invocations
\* between two ForgetCalls.
MaxArgLen == 1
MaxArgs == 2
MaxCalls == 2

NUL == "NUL"
ArgBytes == {"a", "LF"}
\* $(basename "$0")
Basename == <<"c", "m", "d">>

SeqsUpTo(S, n) == UNION {[1..k -> S] : k \in 0..n}
Arguments == SeqsUpTo(ArgBytes, MaxArgLen)
ArgLists == SeqsUpTo(Arguments, MaxArgs)

NoFile == [exists |-> FALSE, raw |-> <<>>]
NotCalled == [valid |-> FALSE, list |-> <<>>]

\* for arg in "$@"; do printf "%s" "$arg"; printf '\0'; done
RECURSIVE LogArgs(_)
LogArgs(argv) ==
    IF argv = <<>> THEN <<>>
    ELSE Head(argv) \o <<NUL>> \o LogArgs(Tail(argv))

\* What one run of the script appends to the log.
scriptTpl(argv) == Basename \o <<NUL>> \o LogArgs(argv) \o <<NUL>>

HasPrefix(str, prefix) ==
    /\ Len(prefix) <= Len(str)
    /\ SubSeq(str, 1, Len(prefix)) = prefix

\* strings.TrimSuffix
TrimSuffix(str, suffix) ==
    IF /\ Len(suffix) <= Len(str)
       /\ SubSeq(str, Len(str) - Len(suffix) + 1, Len(str)) = suffix
    THEN SubSeq(str, 1, Len(str) - Len(suffix))
    ELSE str

\* strings.Split with a separator that is not empty: the pieces between
\* the occurrences of sep, found from the left, none overlapping another.
RECURSIVE Split(_, _)
Split(str, sep) ==
    LET at == {i \in 1..Len(str) : HasPrefix(SubSeq(str, i, Len(str)), sep)}
    IN IF at = {} THEN <<str>>
       ELSE LET i == CHOOSE j \in at : \A k \in at : j <= k
            IN <<SubSeq(str, 1, i - 1)>>
                 \o Split(SubSeq(str, i + Len(sep), Len(str)), sep)

\* FakeCmd.Calls: nil is the empty list.
Calls(file) ==
    IF ~file.exists THEN <<>>
    ELSE LET logContent == TrimSuffix(file.raw, <<NUL>>)
             each == Split(logContent, <<NUL, NUL>>)
         IN [i \in 1..Len(each) |->
                Split(TrimSuffix(each[i], <<NUL>>), <<NUL>>)]

\* No fake command has been run.
CmdIdle ==
    /\ logFile = NoFile
    /\ made = <<>>
    /\ calls = NotCalled

----------------------------------------------------------------------------
MarkerValues(S) == {Absent, Garbage} \cup {IntVal(i) : i \in S}

Init ==
    /\ Level \in 1..MaxLevel
    /\ Sublevel \in Sublevels
    /\ patches \in Registries
    /\ \E lv \in MarkerValues(Levels), sv \in MarkerValues(Sublevels) :
          data = [k \in Keys |-> CASE k = "patch-level" -> lv
                                   [] k = "patch-sublevel" -> sv
                                   [] OTHER -> Absent]
    /\ dirty = FALSE
    /\ lock = Free
    /\ disk = data
    /\ proc = [t \in Procs |-> Idle]
    /\ seen = NotSeen
    /\ initRes = "none"
    /\ calm = FALSE
    /\ fresh = FALSE
    /\ resume = NoPair
    /\ CmdIdle

----------------------------------------------------------------------------
\* Apply

\* A return of Apply with the given result.
Returned(t, res, more) ==
    /\ proc' = [proc EXCEPT ![t] = [more EXCEPT !.pc = "idle", !.result = res]]
    /\ calm' = (res = "nil")
    /\ fresh' = FALSE

\* Apply begins: s.Lock().  (A panic of Init has ended the process, and so
\* has an error of an earlier Apply: startup errors exit the process.)
ApplyLock(t) ==
    /\ proc[t].pc = "idle"
    /\ initRes # "panic"
    /\ \A u \in Procs : proc[u].result # "err"
    /\ lock = Free
    /\ lock' = t
    /\ proc' = [proc EXCEPT ![t] = [Idle EXCEPT !.pc = "read",
                                                !.immediate = calm,
                                                !.afterInit = fresh,
                                                !.resumed = resume,
                                                !.afterDowngrade =
                                                    proc[t].downgradedTo]]
    /\ calm' = FALSE
    /\ fresh' = FALSE
    /\ resume' = NoPair
    /\ UNCHANGED <<cmdVars, Level, Sublevel, patches, data, dirty, disk, seen,
                   initRes>>

\* The two Gets under the lock, and s.Unlock().
ApplyRead(t) ==
    /\ proc[t].pc = "read"
    /\ lock = t
    /\ LET g1 == Get(data, "patch-level")
           g2 == Get(data, "patch-sublevel")
           both == g1.err = "nil" \/ g1.err = "ErrNoState"
       IN proc' = [proc EXCEPT ![t] = [@ EXCEPT
                      !.pc = "check",
                      !.stateLevel = g1.val,
                      !.stateSublevel = IF both THEN g2.val ELSE 0,
                      !.err = IF both THEN g2.err ELSE g1.err,
                      !.entry = data,
                      !.entryDirty = dirty]]
    /\ lock' = Free
    /\ UNCHANGED <<cmdVars, Level, Sublevel, patches, data, dirty, disk, seen,
                   initRes, calm, fresh, resume>>

\* return err
ApplyReadError(t) ==
    /\ proc[t].pc = "check"
    /\ ReadFailed(proc[t].err)
    /\ Returned(t, "err", proc[t])
    /\ UNCHANGED <<cmdVars, Level, Sublevel, patches, data, dirty, lock, disk,
                   seen, initRes, resume>>

\* cannot downgrade: software version is too old for the current system state
ApplyTooNew(t) ==
    /\ proc[t].pc = "check"
    /\ ~ReadFailed(proc[t].err)
    /\ TooNew(proc[t].stateLevel)
    /\ Returned(t, "err", proc[t])
    /\ UNCHANGED <<cmdVars, Level, Sublevel, patches, data, dirty, lock, disk,
                   seen, initRes, resume>>

\* the state is at the running level and sublevel: return nil
ApplyUpToDate(t) ==
    /\ proc[t].pc = "check"
    /\ ~ReadFailed(proc[t].err)
    /\ ~TooNew(proc[t].stateLevel)
    /\ UpToDate(proc[t].stateLevel, proc[t].stateSublevel)
    /\ Returned(t, "nil", proc[t])
    /\ UNCHANGED <<cmdVars, Level, Sublevel, patches, data, dirty, lock, disk,
                   seen, initRes, resume>>

\* What Apply has ruled out when it reaches the upgrade.
Upgrading(t) ==
    /\ proc[t].pc = "check"
    /\ ~ReadFailed(proc[t].err)
    /\ ~TooNew(proc[t].stateLevel)
    /\ ~UpToDate(proc[t].stateLevel, proc[t].stateSublevel)
    /\ ~SameLevelDowngrade(proc[t].stateLevel, proc[t].stateSublevel)

\* downgrade within same level: s.Lock()
DowngradeLock(t) ==
    /\ proc[t].pc = "check"
    /\ ~ReadFailed(proc[t].err)
    /\ ~TooNew(proc[t].stateLevel)
    /\ ~UpToDate(proc[t].stateLevel, proc[t].stateSublevel)
    /\ SameLevelDowngrade(proc[t].stateLevel, proc[t].stateSublevel)
    /\ lock = Free
    /\ lock' = t
    /\ proc' = [proc EXCEPT ![t].pc = "downgrade"]
    /\ UNCHANGED <<cmdVars, Level, Sublevel, patches, data, dirty, disk, seen,
                   initRes, calm, fresh, resume>>

\* s.Set("patch-sublevel", Sublevel); s.Unlock(); return nil
DowngradeSet(t) ==
    /\ proc[t].pc = "downgrade"
    /\ lock = t
    /\ data' = Downgraded(data)
    /\ dirty' = TRUE
    /\ lock' = Free
    /\ Returned(t, "nil",
                [proc[t] EXCEPT !.downgradedTo = <<Level, Sublevel>>])
    /\ UNCHANGED <<cmdVars, Level, Sublevel, patches, disk, seen, initRes,
                   resume>>

\* apply any missing sublevel patches for current state level
ApplyMissingSublevels(t) ==
    /\ Upgrading(t)
    /\ HasMissingSublevels(proc[t].stateLevel, proc[t].stateSublevel)
    /\ proc' = [proc EXCEPT ![t] = [@ EXCEPT
                   !.pc = "sub",
                   !.level = proc[t].stateLevel,
                   !.sublevel = FirstMissingSublevel(proc[t].stateSublevel),
                   !.upgrading = FALSE]]
    /\ UNCHANGED <<cmdVars, Level, Sublevel, patches, data, dirty, lock, disk,
                   seen, initRes, calm, fresh, resume>>

\* no missing sublevel patch: on to the level loop
ApplyNoMissingSublevels(t) ==
    /\ Upgrading(t)
    /\ ~HasMissingSublevels(proc[t].stateLevel, proc[t].stateSublevel)
    /\ proc' = [proc EXCEPT ![t] = [@ EXCEPT
                   !.pc = "lvl",
                   !.level = FirstNewLevel(proc[t].stateLevel)]]
    /\ UNCHANGED <<cmdVars, Level, Sublevel, patches, data, dirty, lock, disk,
                   seen, initRes, calm, fresh, resume>>

\* for level := stateLevel + 1; level <= Level; level++: no registry entry
LevelLoopGap(t) ==
    /\ proc[t].pc = "lvl"
    /\ MoreLevels(proc[t].level)
    /\ NoMigrationPath(proc[t].level)
    /\ Returned(t, "err", [proc[t] EXCEPT !.gap = TRUE])
    /\ UNCHANGED <<cmdVars, Level, Sublevel, patches, data, dirty, lock, disk,
                   seen, initRes, resume>>

\* the level loop calls applySublevelPatches(level, 0, s)
LevelLoopNext(t) ==
    /\ proc[t].pc = "lvl"
    /\ MoreLevels(proc[t].level)
    /\ ~NoMigrationPath(proc[t].level)
    /\ proc' = [proc EXCEPT ![t] = [@ EXCEPT
                   !.pc = "sub", !.sublevel = 0, !.upgrading = TRUE]]
    /\ UNCHANGED <<cmdVars, Level, Sublevel, patches, data, dirty, lock, disk,
                   seen, initRes, calm, fresh, resume>>

\* the level loop is over: return nil
LevelLoopEnd(t) ==
    /\ proc[t].pc = "lvl"
    /\ ~MoreLevels(proc[t].level)
    /\ Returned(t, "nil", proc[t])
    /\ UNCHANGED <<cmdVars, Level, Sublevel, patches, data, dirty, lock, disk,
                   seen, initRes, resume>>

----------------------------------------------------------------------------
\* applySublevelPatches

\* the loop calls applyOne(patches[level][sublevel], s, level, sublevel)
SubLoopNext(t) ==
    /\ proc[t].pc = "sub"
    /\ MoreSublevels(proc[t].level, proc[t].sublevel)
    /\ proc' = [proc EXCEPT ![t].pc = "one"]
    /\ UNCHANGED <<cmdVars, Level, Sublevel, patches, data, dirty, lock, disk,
                   seen, initRes, calm, fresh, resume>>

\* the loop is over: return nil, back in Apply's level loop
SubLoopEnd(t) ==
    /\ proc[t].pc = "sub"
    /\ ~MoreSublevels(proc[t].level, proc[t].sublevel)
    /\ proc' = [proc EXCEPT ![t] = [@ EXCEPT
                   !.pc = "lvl",
                   !.level = IF proc[t].upgrading
                             THEN proc[t].level + 1
                             ELSE FirstNewLevel(proc[t].stateLevel)]]
    /\ UNCHANGED <<cmdVars, Level, Sublevel, patches, data, dirty, lock, disk,
                   seen, initRes, calm, fresh, resume>>

----------------------------------------------------------------------------
\* applyOne

\* s.Lock()
OneLock(t) ==
    /\ proc[t].pc = "one"
    /\ lock = Free
    /\ lock' = t
    /\ proc' = [proc EXCEPT ![t] = [@ EXCEPT
                   !.pc = "patch", !.before = data, !.beforeDirty = dirty]]
    /\ UNCHANGED <<cmdVars, Level, Sublevel, patches, data, dirty, disk, seen,
                   initRes, calm, fresh, resume>>

\* patch(s) returns nil
PatchOK(t) ==
    /\ proc[t].pc = "patch"
    /\ lock = t
    /\ data' = PatchWrites(data, proc[t].level, proc[t].sublevel)
    /\ dirty' = TRUE
    /\ proc' = [proc EXCEPT ![t] = [@ EXCEPT
                   !.pc = "setlevel",
                   !.ran = Append(@, <<proc[t].level, proc[t].sublevel>>)]]
    /\ lock' = HeldAfterPatch(t)
    /\ calm' = FALSE
    /\ fresh' = FALSE
    /\ UNCHANGED <<cmdVars, Level, Sublevel, patches, disk, seen, initRes,
                   resume>>

\* patch(s) returns an error: the deferred Unlock, and the error goes up
\* through applySublevelPatches and Apply.
PatchFail(t) ==
    /\ proc[t].pc = "patch"
    /\ lock = t
    /\ \E partly \in BOOLEAN :
          /\ data' = IF partly
                     THEN PatchWritesPartly(data, proc[t].level, proc[t].sublevel)
                     ELSE data
          /\ dirty' = (dirty \/ partly)
          /\ proc' = [proc EXCEPT ![t] = OnPatchError([@ EXCEPT
                         !.ran = Append(@, <<proc[t].level, proc[t].sublevel>>),
                         !.failed = <<proc[t].level, proc[t].sublevel>>,
                         !.wrote = partly])]
    /\ lock' = UnlockDeferred(t)
    /\ calm' = FALSE
    /\ fresh' = FALSE
    /\ resume' = IF proc[t].sublevel >= 1
                    /\ proc[t].lastOK = <<proc[t].level, proc[t].sublevel - 1>>
                 THEN proc[t].lastOK
                 ELSE NoPair
    /\ UNCHANGED <<cmdVars, Level, Sublevel, patches, disk, seen, initRes>>

\* s.Set("patch-level", newLevel)
OneSetLevel(t) ==
    /\ proc[t].pc = "setlevel"
    /\ lock = t
    /\ data' = BumpLevel(data, proc[t].level)
    /\ dirty' = TRUE
    /\ proc' = [proc EXCEPT ![t].pc = "setsublevel"]
    /\ UNCHANGED <<cmdVars, Level, Sublevel, patches, lock, disk, seen,
                   initRes, calm, fresh, resume>>

\* s.Set("patch-sublevel", newSublevel); return nil and the deferred Unlock;
\* back in applySublevelPatches: sublevel++
OneSetSublevel(t) ==
    /\ proc[t].pc = "setsublevel"
    /\ lock = t
    /\ data' = BumpSublevel(data, proc[t].sublevel)
    /\ dirty' = TRUE
    /\ lock' = UnlockDeferred(t)
    /\ proc' = [proc EXCEPT ![t] = [@ EXCEPT
                   !.pc = "sub",
                   !.lastOK = <<proc[t].level, proc[t].sublevel>>,
                   !.sublevel = @ + 1]]
    /\ UNCHANGED <<cmdVars, Level, Sublevel, patches, disk, seen, initRes,
                   calm, fresh, resume>>

----------------------------------------------------------------------------
\* Init (of package patch)

\* Init is what the startup path calls on a State it has just made, in place
\* of Apply: once, and before any Apply.  It begins with s.Lock().
InitLock ==
    /\ proc[Main].pc = "idle"
    /\ proc[Main].result = "none"
    /\ initRes = "none"
    /\ lock = Free
    /\ lock' = Main
    /\ proc' = [proc EXCEPT ![Main] = [Idle EXCEPT !.pc = "init",
                                                   !.before = data,
                                                   !.beforeDirty = dirty]]
    /\ UNCHANGED <<cmdVars, Level, Sublevel, patches, data, dirty, disk, seen,
                   initRes, calm, fresh, resume>>

\* The body of Init runs under the lock and ends, by return or by panic,
\* with the deferred s.Unlock().
InitCalled ==
    /\ proc[Main].pc = "init"
    /\ lock = Main
    /\ lock' = UnlockDeferred(Main)
    /\ proc' = [proc EXCEPT ![Main].pc = "idle"]
    /\ calm' = FALSE
    /\ resume' = NoPair
    /\ UNCHANGED <<cmdVars, Level, Sublevel, patches, disk, seen>>

\* patch-level is there: panic (the deferred Unlock runs)
InitPanicLevel ==
    /\ InitCalled
    /\ Get(data, "patch-level").err # "ErrNoState"
    /\ initRes' = "panic"
    /\ fresh' = FALSE
    /\ UNCHANGED <<data, dirty>>

\* patch-level is set, patch-sublevel is there: panic
InitPanicSublevel ==
    /\ InitCalled
    /\ Get(data, "patch-level").err = "ErrNoState"
    /\ Get(data, "patch-sublevel").err # "ErrNoState"
    /\ data' = StampLevel(data)
    /\ dirty' = TRUE
    /\ initRes' = "panic"
    /\ fresh' = FALSE

\* both markers are set
InitStamp ==
    /\ InitCalled
    /\ Get(data, "patch-level").err = "ErrNoState"
    /\ Get(data, "patch-sublevel").err = "ErrNoState"
    /\ data' = StampSublevel(StampLevel(data))
    /\ dirty' = TRUE
    /\ initRes' = "ok"
    /\ fresh' = TRUE

----------------------------------------------------------------------------
\* v1SystemInfo: another holder of the State's lock.

\* state.Lock(), and the read under the lock
ObserveLock ==
    /\ lock = Free
    /\ lock' = Observer
    /\ seen' = [valid |-> TRUE, d |-> data]
    /\ UNCHANGED <<cmdVars, Level, Sublevel, patches, data, dirty, disk, proc,
                   initRes, calm, fresh, resume>>

\* the deferred state.Unlock()
ObserveUnlock ==
    /\ lock = Observer
    /\ lock' = Free
    /\ seen' = NotSeen
    /\ UNCHANGED <<cmdVars, Level, Sublevel, patches, data, dirty, disk, proc,
                   initRes, calm, fresh, resume>>

----------------------------------------------------------------------------
\* The checkpoint and the crash.

\* The pairs an Apply in progress has committed.
Committed(t) ==
    {proc[t].ran[i] : i \in {j \in 1..Len(proc[t].ran) :
        /\ proc[t].lastOK # NoPair
        /\ ~PairLess(proc[t].lastOK, proc[t].ran[j])}}

\* The State is dirty: it is snapshot under the lock and written.
Checkpoint ==
    /\ lock = Free
    /\ dirty
    /\ disk' = data
    /\ dirty' = FALSE
    /\ UNCHANGED <<cmdVars, Level, Sublevel, patches, data, lock, proc, seen,
                   initRes, calm, fresh, resume>>

\* The process dies and starts again from the last checkpoint.
Crash ==
    /\ data' = disk
    /\ dirty' = FALSE
    /\ lock' = Free
    /\ proc' = [t \in Procs |-> Idle]
    /\ seen' = NotSeen
    /\ initRes' = "none"
    /\ calm' = FALSE
    /\ fresh' = FALSE
    /\ resume' = LET p == StoredPair(disk)
                 IN IF /\ proc[Main].pc # "idle"
                       /\ p \in Committed(Main)
                       /\ MoreSublevels(p[1], p[2] + 1)
                    THEN p
                    ELSE IF p = resume THEN resume ELSE NoPair
    /\ UNCHANGED <<cmdVars, Level, Sublevel, patches, disk>>

----------------------------------------------------------------------------
ProcStep(t) ==
    \/ ApplyLock(t)
    \/ ApplyRead(t)
    \/ ApplyReadError(t)
    \/ ApplyTooNew(t)
    \/ ApplyUpToDate(t)
    \/ DowngradeLock(t)
    \/ DowngradeSet(t)
    \/ ApplyMissingSublevels(t)
    \/ ApplyNoMissingSublevels(t)
    \/ LevelLoopGap(t)
    \/ LevelLoopNext(t)
    \/ LevelLoopEnd(t)
    \/ SubLoopNext(t)
    \/ SubLoopEnd(t)
    \/ OneLock(t)
    \/ PatchOK(t)
    \/ PatchFail(t)
    \/ OneSetLevel(t)
    \/ OneSetSublevel(t)

Others ==
    \/ InitLock
    \/ InitPanicLevel
    \/ InitPanicSublevel
    \/ InitStamp
    \/ ObserveLock
    \/ ObserveUnlock

\* One goroutine at startup, and the request handler.
Next == ProcStep(Main) \/ Others

Spec == Init /\ [][Next]_vars

\* The same, with checkpoints and crashes.
NextCrash == ProcStep(Main) \/ Checkpoint \/ Crash

CrashSpec == Init /\ [][NextCrash]_vars

----------------------------------------------------------------------------
\* Properties

\* The data a call found at entry: its markers.
MarkersOf(d) == <<d["patch-level"], d["patch-sublevel"]>>
PairMarkers(p) == <<IntVal(p[1]), IntVal(p[2])>>

\* The call of t is over.
Over(t) == proc[t].pc = "idle" /\ proc[t].result # "none"

\* The markers are those of the last patch of the call that succeeded, or
\* those found at entry when none did.
AtLastCommitted(t) ==
    MarkersOf(data) = IF proc[t].lastOK # NoPair
                      THEN PairMarkers(proc[t].lastOK)
                      ELSE MarkersOf(proc[t].entry)

\* C1: Apply is idempotent: a call of Apply that begins right after a call
\* that returned nil (nothing having happened in between) runs no patch
\* function, whatever the stored pair and the registry were.
C1_Idempotent ==
    \A t \in Procs : proc[t].immediate => proc[t].ran = <<>>

\* C1's case: a first call ran patches and returned nil, and the call that
\* followed it at once has returned.
C1_Witness ==
    /\ proc[Main].immediate
    /\ Over(Main)
    /\ proc[Main].result = "nil"
    /\ data["last"].kind = "patch"

\* C2 as stated: after an Apply was cut short with <<L, k>> committed (the
\* patch k + 1 of L failed, or the process crashed before k + 1 was
\* committed), the next Apply runs the patch k + 1 of level L first.
C2_AlwaysResumesAtNext ==
    \A t \in Procs :
        (proc[t].resumed # NoPair /\ Over(t)) =>
            /\ proc[t].ran # <<>>
            /\ proc[t].ran[1] = <<proc[t].resumed[1], proc[t].resumed[2] + 1>>

\* C2, amended: after an Apply was cut short with <<L, k>> committed, the
\* stored markers are <<L, k>>; the next Apply runs no patch at or below
\* <<L, k>>; when <<L, k>> is below the running <<Level, Sublevel>> the first
\* patch it runs is k + 1 of L, and otherwise (L = Level and k >= Sublevel)
\* it runs no patch at all.
C2_Resumable ==
    /\ resume # NoPair => MarkersOf(data) = PairMarkers(resume)
    /\ \A t \in Procs :
          LET r == proc[t].resumed
              ran == proc[t].ran
          IN r # NoPair =>
                /\ \A i \in 1..Len(ran) : PairLess(r, ran[i])
                /\ ran # <<>> => ran[1] = <<r[1], r[2] + 1>>
                /\ MarkersOf(proc[t].entry) = PairMarkers(r) \/ proc[t].pc = "read"
                /\ Over(t) =>
                      IF PairLess(r, <<Level, Sublevel>>)
                      THEN ran # <<>>
                      ELSE ran = <<>>

\* C2's case: the process crashed with <<L, k>> on disk and k + 1 pending,
\* and the next Apply has run the patch k + 1 of L and more.
C2_Witness ==
    /\ proc[Main].resumed # NoPair
    /\ proc[Main].ran = <<(<<proc[Main].resumed[1], proc[Main].resumed[2] + 1>>)>>
    /\ Over(Main)
    /\ proc[Main].result = "nil"
    /\ disk # data

\* The call of t found a stored level above the running Level.
EntryTooNew(t) ==
    /\ proc[t].entry["patch-level"].kind = "int"
    /\ proc[t].entry["patch-level"].n > Level

\* C3: when the stored patch-level is above Level, Apply returns an error,
\* runs no patch and leaves every key and the dirty flag as it found them,
\* whatever the stored sublevel and the registry are.
C3_TooNewFailsFast ==
    \A t \in Procs :
        (EntryTooNew(t) /\ proc[t].pc # "read") =>
            /\ proc[t].pc \in {"check", "idle"}
            /\ proc[t].ran = <<>>
            /\ data = proc[t].entry
            /\ dirty = proc[t].entryDirty
            /\ Over(t) => proc[t].result = "err"

\* C3's case: a call that found a level above Level has returned, with a
\* registry that lists patches.
C3_Witness ==
    /\ EntryTooNew(Main)
    /\ Over(Main)
    /\ proc[Main].result = "err"
    /\ \E l \in DOMAIN patches : patches[l] > 0

\* C4: when a patch function returns an error, Apply returns an error, the
\* failed patch is the last one run, and the stored pair is that of the last
\* patch that succeeded, or the one found at entry.
C4_FailureAborts ==
    \A t \in Procs :
        proc[t].failed # NoPair =>
            /\ proc[t].pc = "idle"
            /\ proc[t].result = "err"
            /\ proc[t].ran[Len(proc[t].ran)] = proc[t].failed
            /\ AtLastCommitted(t)

\* C4's case: a patch failed after another had succeeded, with more patches
\* listed after it.
C4_Witness ==
    /\ proc[Main].failed # NoPair
    /\ proc[Main].lastOK # NoPair
    /\ \/ MoreSublevels(proc[Main].failed[1], proc[Main].failed[2] + 1)
       \/ /\ proc[Main].failed[1] < Level
          /\ PatchLen(proc[Main].failed[1] + 1) > 0

\* C5 as stated: a patch function that wrote keys and then returned an error
\* leaves none of its writes in the state, nor the state dirtier, once Apply
\* has returned.
C5_NoPartialPatch ==
    \A t \in Procs :
        (proc[t].failed # NoPair /\ proc[t].wrote /\ Over(t)) =>
            /\ data = proc[t].before
            /\ dirty = proc[t].beforeDirty

\* C6: Init on a state that holds neither marker stamps it at <<Level,
\* Sublevel>> and runs no patch function; the Apply that follows Init directly
\* runs no patch, changes no key and returns nil, whatever the registry lists.
\* (Without checkpoints disk is the state the process started with, so the
\* second conjunct says that Init panics only where a marker was there.)
C6_InitStamps ==
    /\ fresh =>
          /\ initRes = "ok"
          /\ MarkersOf(data) = PairMarkers(<<Level, Sublevel>>)
          /\ data["first"] = Absent /\ data["last"] = Absent
    /\ initRes = "panic" => MarkersOf(disk) # <<Absent, Absent>>
    /\ \A t \in Procs :
          proc[t].afterInit =>
             /\ proc[t].ran = <<>>
             /\ proc[t].pc \in {"read", "check", "idle"}
             /\ proc[t].pc # "read" =>
                   /\ data = proc[t].entry
                   /\ dirty = proc[t].entryDirty
             /\ Over(t) => proc[t].result = "nil"

\* C6's case: Init has stamped a new state, the Apply that followed has
\* returned, and the registry lists patches beyond the running pair.
C6_Witness ==
    /\ initRes = "ok"
    /\ proc[Main].afterInit
    /\ Over(Main)
    /\ PatchLen(Level) > Sublevel + 1

\* The call of t found the running Level and a sublevel above Sublevel.
EntryDowngrade(t) ==
    /\ proc[t].entry["patch-level"] = IntVal(Level)
    /\ proc[t].entry["patch-sublevel"].kind = "int"
    /\ proc[t].entry["patch-sublevel"].n > Sublevel

\* C7: same-level downgrade: with the stored level at Level and the stored
\* sublevel above Sublevel, Apply returns nil, has set patch-sublevel to
\* Sublevel, has run no patch, and has left every other key as it was.
C7_SameLevelDowngrade ==
    \A t \in Procs :
        (EntryDowngrade(t) /\ proc[t].pc # "read") =>
            /\ proc[t].ran = <<>>
            /\ proc[t].pc \in {"check", "downgrade", "idle"}
            /\ Over(t) =>
                  /\ proc[t].result = "nil"
                  /\ data = [proc[t].entry EXCEPT
                                !["patch-sublevel"] = IntVal(Sublevel)]

\* C7's case: a downgrading call has returned, with patches listed for the
\* level.
C7_Witness ==
    /\ EntryDowngrade(Main)
    /\ Over(Main)
    /\ data # proc[Main].entry
    /\ PatchLen(Level) > 0

\* The patches of level l from index from on, in order.
SubRange(l, from) ==
    [i \in 1..(IF PatchLen(l) > from THEN PatchLen(l) - from ELSE 0) |->
        <<l, from + i - 1>>]

\* The full lists of the levels l..Level, in order.
RECURSIVE LevelsFrom(_)
LevelsFrom(l) ==
    IF l > Level THEN <<>> ELSE SubRange(l, 0) \o LevelsFrom(l + 1)

\* What the claim says an upgrade from the stored pair p runs.
Expected(p) == SubRange(p[1], p[2] + 1) \o LevelsFrom(p[1] + 1)

IsPrefix(a, b) == Len(a) <= Len(b) /\ SubSeq(b, 1, Len(a)) = a

\* The call of t read the markers, and they are below the running pair.
EntryBelow(t) ==
    /\ proc[t].entry["patch-level"].kind \in {"absent", "int"}
    /\ proc[t].entry["patch-sublevel"].kind \in {"absent", "int"}
    /\ PairLess(StoredPair(proc[t].entry), <<Level, Sublevel>>)

\* C8: upgrade order: from a stored pair below the running pair, Apply runs
\* the stored level's patches from stored-sublevel + 1 to the end of its list,
\* then the full list of each level from stored-level + 1 to Level, in that
\* order (all of them when it returns nil, the first of them when it does
\* not): in strictly increasing order, and none at or below the stored pair.
C8_UpgradeOrder ==
    \A t \in Procs :
        (EntryBelow(t) /\ proc[t].pc # "read") =>
            LET ran == proc[t].ran
                stored == StoredPair(proc[t].entry)
            IN /\ IsPrefix(ran, Expected(stored))
               /\ (Over(t) /\ proc[t].result = "nil") => ran = Expected(stored)
               /\ \A i, j \in 1..Len(ran) : i < j => PairLess(ran[i], ran[j])
               /\ \A i \in 1..Len(ran) : PairLess(stored, ran[i])

\* C8's case: an upgrade that ran the rest of the stored level's list and
\* then a later level's list has returned nil.
C8_Witness ==
    /\ EntryBelow(Main)
    /\ Over(Main)
    /\ proc[Main].result = "nil"
    /\ Len(proc[Main].ran) >= 3
    /\ proc[Main].ran[1] = <<proc[Main].stateLevel, proc[Main].stateSublevel + 1>>
    /\ proc[Main].ran[Len(proc[Main].ran)][1] > proc[Main].stateLevel

\* The levels above the stored one, up to Level, that the registry lacks.
Gaps(t) ==
    {n \in Levels : /\ StoredPair(proc[t].entry)[1] < n
                    /\ n <= Level
                    /\ n \notin DOMAIN patches}

Least(S) == CHOOSE n \in S : \A k \in S : n <= k

\* C9: a missing migration path is fatal: when the registry lacks a level n
\* above the stored level and up to Level, Apply returns an error, runs no
\* patch of level n or higher, and leaves the stored pair at that of the last
\* patch it applied before reaching the gap (or as found at entry).
C9_MissingMigrationPath ==
    \A t \in Procs :
        (Gaps(t) # {} /\ proc[t].pc # "read") =>
            /\ \A i \in 1..Len(proc[t].ran) : proc[t].ran[i][1] < Least(Gaps(t))
            /\ Over(t) => (proc[t].result = "err" /\ AtLastCommitted(t))
            /\ proc[t].gap => (Over(t) /\ proc[t].level = Least(Gaps(t)))

\* C9's case: Apply applied patches of the levels below the gap and then
\* stopped at the gap.
C9_Witness ==
    /\ proc[Main].gap
    /\ proc[Main].lastOK # NoPair
    /\ Gaps(Main) # {}

\* What a holder of the lock reads in d while t is in Apply: the state as
\* Apply found it, or all of the last successful patch together with its pair.
Consistent(d, t) ==
    IF proc[t].lastOK = NoPair
    THEN d = proc[t].entry
    ELSE /\ MarkersOf(d) = PairMarkers(proc[t].lastOK)
         /\ d["first"] = PatchVal(proc[t].lastOK[1], proc[t].lastOK[2])
         /\ d["last"] = PatchVal(proc[t].lastOK[1], proc[t].lastOK[2])

----------------------------------------------------------------------------
\* The fake command at work.  The patch engine stands still meanwhile.

PatchIdle ==
    /\ Level = 1
    /\ Sublevel = 0
    /\ patches = [l \in {1} |-> 1]
    /\ data = [k \in Keys |-> Absent]
    /\ dirty = FALSE
    /\ lock = Free
    /\ disk = data
    /\ proc = [t \in Procs |-> Idle]
    /\ seen = NotSeen
    /\ initRes = "none"
    /\ calm = FALSE
    /\ fresh = FALSE
    /\ resume = NoPair

\* The fake command is run with the arguments argv: its script appends to
\* the log, making the file if it is not there.
Invoke(argv) ==
    /\ Len(made) < MaxCalls
    /\ logFile' = [exists |-> TRUE, raw |-> logFile.raw \o scriptTpl(argv)]
    /\ made' = Append(made, <<Basename>> \o argv)
    /\ calls' = NotCalled
    /\ UNCHANGED patchVars

\* FakeCmd.ForgetCalls: os.Remove(cmd.logFile)
ForgetCalls ==
    /\ logFile' = NoFile
    /\ made' = <<>>
    /\ calls' = NotCalled
    /\ UNCHANGED patchVars

\* FakeCmd.Calls is called.
CallsCalled ==
    /\ calls' = [valid |-> TRUE, list |-> Calls(logFile)]
    /\ UNCHANGED <<patchVars, logFile, made>>

CmdInit == PatchIdle /\ CmdIdle

CmdNext ==
    \/ \E argv \in ArgLists : Invoke(argv)
    \/ ForgetCalls
    \/ CallsCalled

CmdSpec == CmdInit /\ [][CmdNext]_vars

\* C13: what FakeCmd.Calls returns is the list of the invocations made
\* since the last ForgetCalls: one entry for each, in the order they were
\* made, an entry being the basename and then the very arguments given,
\* empty ones and ones with newlines among them; and nil when none was made.
C13_CallsReturnsCallsMade == calls.valid => calls.list = made

----------------------------------------------------------------------------
\* The pcs at which a goroutine is between a Lock and its Unlock: every Get
\* and Set of Init, Apply and applyOne is a step taken at one of them.
UnderLock == {"init", "read", "downgrade", "patch", "setlevel", "setsublevel"}

\* C11: Init, Apply and applyOne do their Gets and Sets, and v1SystemInfo
\* its read, holding the lock; none of them takes the lock while holding
\* it (Apply is not holding it when it calls applyOne); and each has let go
\* of it when it returns, with an error as well as without one.
C11_LockDiscipline ==
    /\ \A t \in Procs : (lock = t) <=> (proc[t].pc \in UnderLock)
    /\ (lock = Observer) <=> seen.valid
    /\ lock \in Procs \cup {Observer, Free}

\* C11's case: applyOne has returned the error of a patch through Apply, and
\* the handler has the lock.
C11_Witness ==
    /\ proc[Main].failed # NoPair
    /\ proc[Main].result = "err"
    /\ proc[Main].pc = "idle"
    /\ lock = Observer

\* C18: Init refuses a state that has a marker already, either one or both:
\* it panics, the state has the keys and values it had before the call, and
\* the lock is released.
C18_InitRefusesUntouched ==
    initRes = "panic" =>
        /\ proc[Main].pc = "idle"
        /\ lock # Main
        /\ data = proc[Main].before
        /\ dirty = proc[Main].beforeDirty

----------------------------------------------------------------------------
\* The call of Apply of t has read the markers.
HasRead(t) == proc[t].pc \notin {"idle", "read", "init"} \/ Over(t)

\* It found neither marker.
EntryNoMarkers(t) == MarkersOf(proc[t].entry) = <<Absent, Absent>>

\* It found a marker that does not decode (patch-sublevel is not read when
\* patch-level does not decode).
EntryUnreadable(t) ==
    \/ proc[t].entry["patch-level"].kind = "garbage"
    \/ proc[t].entry["patch-sublevel"].kind = "garbage"

\* The registry has an entry for every level 1..Level.
EveryLevelListed == \A n \in 1..Level : n \in DOMAIN patches

\* C15: a state with no patch-level is at level 0, one with no
\* patch-sublevel at sublevel 0: on a state that has neither marker, with
\* every level 1..Level listed, Apply runs the patches of the levels
\* 1..Level from sublevel 0 on, in order, stops only at a patch that fails,
\* and when it returns nil it has run them all and the markers are those of
\* the last one.  A marker that is there and cannot be read makes Apply
\* return the error: no patch is run and no key is changed.
C15_MissingMarkersReadAsZero ==
    \A t \in Procs :
        HasRead(t) =>
            /\ (EntryNoMarkers(t) /\ EveryLevelListed) =>
                  LET ran == proc[t].ran
                  IN /\ proc[t].stateLevel = 0
                     /\ proc[t].stateSublevel = 0
                     /\ IsPrefix(ran, LevelsFrom(1))
                     /\ (Over(t) /\ proc[t].result = "err") =>
                           /\ ran # <<>>
                           /\ proc[t].failed = ran[Len(ran)]
                     /\ (Over(t) /\ proc[t].result = "nil") =>
                           /\ ran = LevelsFrom(1)
                           /\ ran # <<>> =>
                                 MarkersOf(data) = PairMarkers(ran[Len(ran)])
            /\ EntryUnreadable(t) =>
                  /\ proc[t].pc \in {"check", "idle"}
                  /\ proc[t].ran = <<>>
                  /\ data = proc[t].entry
                  /\ dirty = proc[t].entryDirty
                  /\ Over(t) => proc[t].result = "err"

\* C15's case: Apply found no marker and has run the lists of two levels.
C15_Witness ==
    /\ EntryNoMarkers(Main)
    /\ Over(Main)
    /\ proc[Main].result = "nil"
    /\ Level >= 2
    /\ Len(proc[Main].ran) >= 3
    /\ proc[Main].ran[1] = <<1, 0>>

----------------------------------------------------------------------------
\* The call of Apply of t has returned nil.
Succeeded(t) == Over(t) /\ proc[t].result = "nil"

\* The registry lists for the running Level the sublevels 0..Sublevel, no
\* fewer and no more.
RegistryMatchesSublevel == PatchLen(Level) = Sublevel + 1

\* C17, as claimed: whenever Apply returns nil the stored pair is the
\* running <<Level, Sublevel>>, whatever the registry lists (a missing
\* marker reads as 0).
C17_SuccessMeansCurrent ==
    \A t \in Procs : Succeeded(t) => StoredPair(data) = <<Level, Sublevel>>

\* C17, amended: whenever Apply returns nil and the registry lists exactly
\* Sublevel + 1 patches for Level, the stored pair is the running
\* <<Level, Sublevel>>, whatever the stored pair was.
C17_SuccessMeansCurrentIfListed ==
    \A t \in Procs :
        (Succeeded(t) /\ RegistryMatchesSublevel) =>
            StoredPair(data) = <<Level, Sublevel>>

\* C17's case: an upgrade over two levels has returned nil, with Sublevel
\* the last sublevel listed for Level.
C17_Witness ==
    /\ Succeeded(Main)
    /\ RegistryMatchesSublevel
    /\ Len(proc[Main].ran) >= 2
    /\ proc[Main].ran[1][1] < Level

----------------------------------------------------------------------------
\* A refresh: the software is replaced by another build of the same Level,
\* with its own Sublevel and its own list for Level (what Fake sets), and
\* the new process starts on the state the old one left behind.

Refresh ==
    /\ proc[Main].pc = "idle"
    /\ proc[Main].result = "nil"
    /\ lock = Free
    /\ \E sublevel \in Sublevels, n \in 0..MaxLen :
          /\ Sublevel' = sublevel
          /\ patches' = [l \in DOMAIN patches \cup {Level} |->
                            IF l = Level THEN n ELSE patches[l]]
          /\ <<sublevel, n>> # <<Sublevel, PatchLen(Level)>>
    /\ proc' = [t \in Procs |->
                   [Idle EXCEPT !.downgradedTo = proc[t].downgradedTo]]
    /\ disk' = data
    /\ dirty' = FALSE
    /\ seen' = NotSeen
    /\ calm' = FALSE
    /\ fresh' = FALSE
    /\ resume' = NoPair
    /\ UNCHANGED <<cmdVars, Level, data, lock, initRes>>

RefreshNext == ProcStep(Main) \/ Refresh

RefreshSpec == Init /\ [][RefreshNext]_vars

\* The call of t is the first after a same-level downgrade that wrote the
\* sublevel s, and the running Level is still that level.
AfterDowngradeTo(t, s) ==
    /\ HasRead(t)
    /\ proc[t].afterDowngrade = <<Level, s>>
    /\ MarkersOf(proc[t].entry) = PairMarkers(<<Level, s>>)

\* C16, as claimed: after a same-level downgrade to the sublevel s, an Apply
\* of software of the same Level whose registry lists sublevels beyond s
\* runs again the patches s + 1 .. end of the level's list, in order.
C16_RefreshReapplies ==
    \A t \in Procs : \A s \in Sublevels :
        (AfterDowngradeTo(t, s) /\ PatchLen(Level) > s + 1 /\ Succeeded(t)) =>
            proc[t].ran = SubRange(Level, s + 1)

\* C16, amended: it does when the Sublevel of that software is above s: it
\* then runs those patches and no other, in order, to the end of the list
\* or to the first that fails.  With Sublevel at s or below it runs none.
C16_RefreshReappliesWhenAbove ==
    \A t \in Procs : \A s \in Sublevels :
        AfterDowngradeTo(t, s) =>
            IF Sublevel > s
            THEN /\ IsPrefix(proc[t].ran, SubRange(Level, s + 1))
                 /\ Succeeded(t) => proc[t].ran = SubRange(Level, s + 1)
                 /\ (Over(t) /\ proc[t].result = "err") =>
                       proc[t].failed # NoPair
            ELSE proc[t].ran = <<>>

\* C16's case: the patch at sublevel s + 1 had been applied before the
\* downgrade to s, and the Apply after the refresh has run it again.
C16_Witness ==
    \E s \in Sublevels :
        /\ AfterDowngradeTo(Main, s)
        /\ Sublevel > s
        /\ Succeeded(Main)
        /\ proc[Main].entry["last"] = PatchVal(Level, s + 1)
        /\ proc[Main].ran = <<(<<Level, s + 1>>)>>

----------------------------------------------------------------------------
\* Two goroutines call Apply on the same State.

ConcNext == \E t \in Procs : ProcStep(t)

ConcSpec == Init /\ [][ConcNext]_vars

\* How many times the call of t has run the patch p.
Runs(t, p) == Cardinality({i \in 1..Len(proc[t].ran) : proc[t].ran[i] = p})

\* The patches of the registry.
AllPatches == {<<l, i>> : l \in Levels, i \in Sublevels}

\* C19: however two calls of Apply on the same state interleave, no patch
\* function is run more than once in all, and the stored pair never moves
\* backwards: it is never below the pair of a patch that one of the calls
\* has committed.
C19_ConcurrentApplyOnce ==
    /\ \A p \in AllPatches : Runs("p1", p) + Runs("p2", p) <= 1
    /\ \A t \in Procs :
          proc[t].lastOK # NoPair =>
              ~PairLess(StoredPair(data), proc[t].lastOK)

====
